---- MODULE Spec2Model ----
(***************************************************************************)
(* The zerocopify transformation of build.rs: main and the two-phase loop  *)
(* of transform_ast over a file of struct, enum and impl items (Spec); and *)
(* the message envelope of schema.rs as MCPServer::run of server.rs        *)
(* decodes and answers it (ServerSpec).                                    *)
(*                                                                         *)
(* A type is a record [k, id, args]:                                       *)
(*   k = "path": a path type, id its last segment, args its angle-bracket  *)
(*               arguments (<<>> stands for no arguments);                 *)
(*   k = "ref" : a reference &'a T, args = <<T>>;                          *)
(*   k = "lt"  : the lifetime argument 'a.                                 *)
(* An item is a record [kind, name, derives, lt, fields, trait]: lt counts *)
(* the lifetime parameters of its generics, fields are its field types (an *)
(* enum's fields are the payloads of its variants, an impl's single field  *)
(* is its self type), each with the number of its attributes whose text    *)
(* contains "borrow" (#[serde(borrow)], or a doc comment with the word);   *)
(* trait is <<>> or <<the trait path of an impl>>.                         *)
(*                                                                         *)
(* Bodies of impl blocks, nested modules, paths of several segments and    *)
(* tuple, array and function types are not modelled: the file holds the    *)
(* items typify emits, with one-segment paths.                             *)
(***************************************************************************)
EXTENDS Integers, Sequences, FiniteSets, TLC

VARIABLES
    ast,            \* the syn::File being transformed: a sequence of items
    input,          \* the file as handed to the first transform_ast call
    ignored_types,  \* SerdeBorrowTransformer.ignored_types (the set X)
    pc,             \* main: "main" | "phase1" | "check" | "done" | "written" |
                    \*   "aborted"
    idx,            \* next item visit_file_mut hands to the phase-1 visitor
    changed_types,  \* SerdeBorrowTransformer.changed_types of this pass
    modified,       \* transform_ast's `modified` of this iteration
    iter,           \* iterations of the loop started in this call
    run,            \* calls of transform_ast so far
    before,         \* the file as it was when the current iteration began
    out,            \* what main wrote to OUT_DIR/schema.rs: <<>> or <<file>>
    spc,            \* MCPServer::run: "off" | "recv" | "parse" | "handle" |
                    \*   "send" | "panicked"
    buf,            \* the bytes transport.recv returned for the current message
    msg,            \* the ClientMessage decoded from buf
    response,       \* the ServerMessage built for the current request
    sent,           \* the buffers handed to transport.send, in order
    received,       \* messages received so far
    requests,       \* the requests run has decoded and answers, in order
    server          \* the MCPServer run owns: <<>> or <<its fields>>

bvars == <<ast, input, ignored_types, pc, idx, changed_types, modified, iter, run,
           before, out>>
svars == <<spc, buf, msg, response, sent, received, requests, server>>
vars == <<bvars, svars>>

\* ------------------------------------------------------------------ types

Path(id, args) == [k |-> "path", id |-> id, args |-> args]
LifetimeA == [k |-> "lt", id |-> "a", args |-> <<>>]
\* parse_quote!(&'a str)
StrRef == [k |-> "ref", id |-> "a", args |-> <<Path("str", <<>>)>>]

Field(ty) == [ty |-> ty, borrow |-> 0]

\* Mutant: any generic argument is taken for a lifetime.
type_contains_lifetime_any_argument(ty) ==
    CASE ty.k = "ref" -> TRUE
      [] ty.k = "path" -> ty.args # <<>>
      [] OTHER -> FALSE

RECURSIVE type_contains_lifetime(_)
type_contains_lifetime(ty) ==
    CASE ty.k = "ref" -> TRUE
      [] ty.k = "path" ->
            \E i \in 1..Len(ty.args) :
                \/ ty.args[i].k = "lt"
                \/ ty.args[i].k # "lt" /\ type_contains_lifetime(ty.args[i])
      [] OTHER -> FALSE

\* Mutant: once any definition has changed, every path counts as using a
\* changed type.
RECURSIVE type_uses_changed_type_any_path(_, _)
type_uses_changed_type_any_path(ty, changed) ==
    CASE ty.k = "path" ->
            \/ ty.id \in changed
            \/ changed # {}
            \/ \E i \in 1..Len(ty.args) :
                  ty.args[i].k # "lt" /\ type_uses_changed_type_any_path(ty.args[i], changed)
      [] ty.k = "ref" -> type_uses_changed_type_any_path(ty.args[1], changed)
      [] OTHER -> FALSE

RECURSIVE type_uses_changed_type(_, _)
type_uses_changed_type(ty, changed) ==
    CASE ty.k = "path" ->
            \/ ty.id \in changed
            \/ \E i \in 1..Len(ty.args) :
                  ty.args[i].k # "lt" /\ type_uses_changed_type(ty.args[i], changed)
      [] ty.k = "ref" -> type_uses_changed_type(ty.args[1], changed)
      [] OTHER -> FALSE

is_reference_type(ty) == ty.k = "ref"

is_string_type(ty) == ty.k = "path" /\ ty.id = "String"

\* Mutant: the attribute is pushed without looking for one already there.
transform_field_push_always(field) ==
    LET ty == field.ty
        skip == ty.k = "path" /\ ~is_string_type(ty) /\ ty.id = "Map"
        ty1 == IF is_string_type(ty) THEN StrRef
               ELSE IF ty.k = "path"
                    THEN [ty EXCEPT !.args =
                            [i \in 1..Len(ty.args) |->
                                IF is_string_type(ty.args[i]) THEN StrRef
                                ELSE ty.args[i]]]
                    ELSE ty
        push == ~is_reference_type(ty1) /\ type_contains_lifetime(ty1)
    IN  IF skip THEN [field |-> field, modified |-> FALSE]
        ELSE [field |-> [ty |-> ty1,
                         borrow |-> IF push THEN field.borrow + 1 ELSE field.borrow],
              modified |-> (ty1 # ty) \/ push]

\* Mutant: only the first generic argument of the wrapper is looked at.
transform_field_first_argument(field) ==
    LET ty == field.ty
        skip == ty.k = "path" /\ ~is_string_type(ty) /\ ty.id = "Map"
        ty1 == IF is_string_type(ty) THEN StrRef
               ELSE IF ty.k = "path"
                    THEN [ty EXCEPT !.args =
                            [i \in 1..Len(ty.args) |->
                                IF i = 1 /\ is_string_type(ty.args[i]) THEN StrRef
                                ELSE ty.args[i]]]
                    ELSE ty
        push == /\ ~is_reference_type(ty1)
                /\ type_contains_lifetime(ty1)
                /\ field.borrow = 0
    IN  IF skip THEN [field |-> field, modified |-> FALSE]
        ELSE [field |-> [ty |-> ty1,
                         borrow |-> IF push THEN field.borrow + 1 ELSE field.borrow],
              modified |-> (ty1 # ty) \/ push]

\* The result of transform_field: the field as rewritten and the value returned.
transform_field(field) ==
    LET ty == field.ty
        skip == ty.k = "path" /\ ~is_string_type(ty) /\ ty.id = "Map"
        ty1 == IF is_string_type(ty) THEN StrRef
               ELSE IF ty.k = "path"
                    THEN [ty EXCEPT !.args =
                            [i \in 1..Len(ty.args) |->
                                IF is_string_type(ty.args[i]) THEN StrRef
                                ELSE ty.args[i]]]
                    ELSE ty
        push == /\ ~is_reference_type(ty1)
                /\ type_contains_lifetime(ty1)
                /\ field.borrow = 0
    IN  IF skip THEN [field |-> field, modified |-> FALSE]
        ELSE [field |-> [ty |-> ty1,
                         borrow |-> IF push THEN field.borrow + 1 ELSE field.borrow],
              modified |-> (ty1 # ty) \/ push]

\* SerdeBorrowTransformer::visit_type_path_mut with the recursion of
\* visit_mut::visit_type_path_mut into the arguments; `modified` is raised
\* exactly when the result differs from the argument.
RECURSIVE visit_type_path_mut(_, _)
visit_type_path_mut(ty, changed) ==
    IF ty.k = "lt" THEN ty
    ELSE LET args1 == IF ty.k = "path" /\ ty.id \in changed /\ ty.args = <<>>
                      THEN <<LifetimeA>> ELSE ty.args
         IN  [ty EXCEPT !.args =
                [i \in 1..Len(args1) |-> visit_type_path_mut(args1[i], changed)]]

\* Mutant: 'a is pushed onto arguments that are not empty.
RECURSIVE usage_visit_pushes_again(_, _)
usage_visit_pushes_again(ty, lifetime_types) ==
    IF ty.k = "lt" THEN ty
    ELSE LET args1 == IF ty.k = "path" /\ ty.id \in lifetime_types
                      THEN ty.args \o <<LifetimeA>> ELSE ty.args
         IN  [ty EXCEPT !.args =
                [i \in 1..Len(args1) |->
                    usage_visit_pushes_again(args1[i], lifetime_types)]]

\* Mutant: 'a is pushed onto a path that carries one lifetime argument too.
RECURSIVE usage_visit_pushes_second(_, _)
usage_visit_pushes_second(ty, lifetime_types) ==
    IF ty.k = "lt" THEN ty
    ELSE LET args1 == IF /\ ty.k = "path"
                         /\ ty.id \in lifetime_types
                         /\ ty.args \in {<<>>, <<LifetimeA>>}
                      THEN ty.args \o <<LifetimeA>> ELSE ty.args
         IN  [ty EXCEPT !.args =
                [i \in 1..Len(args1) |->
                    usage_visit_pushes_second(args1[i], lifetime_types)]]

\* LifetimeUsageTransformer::visit_type_path_mut, likewise.
RECURSIVE usage_visit_type_path_mut(_, _)
usage_visit_type_path_mut(ty, lifetime_types) ==
    IF ty.k = "lt" THEN ty
    ELSE LET args1 == IF ty.k = "path" /\ ty.id \in lifetime_types /\ ty.args = <<>>
                      THEN <<LifetimeA>> ELSE ty.args
         IN  [ty EXCEPT !.args =
                [i \in 1..Len(args1) |->
                    usage_visit_type_path_mut(args1[i], lifetime_types)]]

\* ------------------------------------------------------------------ items

\* Mutant: every definition is taken for a deserialization target.
derives_deserialize_always(item) == TRUE

derives_deserialize(item) == item.derives

\* visit_mut::visit_item_*_mut under the phase-1 visitor: every type path of
\* the item's fields is visited; a trait path is no type path, its arguments are.
VisitItemTypes(item, changed) ==
    [item EXCEPT
        !.fields = [i \in 1..Len(item.fields) |->
                      [item.fields[i] EXCEPT !.ty = visit_type_path_mut(@, changed)]],
        !.trait = [i \in 1..Len(item.trait) |->
                      [item.trait[i] EXCEPT !.args =
                          [j \in 1..Len(item.trait[i].args) |->
                              visit_type_path_mut(item.trait[i].args[j], changed)]]]]

\* The same walk under the phase-2 visitor.
UsageVisitItemTypes(item, lifetime_types) ==
    [item EXCEPT
        !.fields = [i \in 1..Len(item.fields) |->
                      [item.fields[i] EXCEPT
                          !.ty = usage_visit_type_path_mut(@, lifetime_types)]],
        !.trait = [i \in 1..Len(item.trait) |->
                      [item.trait[i] EXCEPT !.args =
                          [j \in 1..Len(item.trait[i].args) |->
                              usage_visit_type_path_mut(item.trait[i].args[j],
                                                        lifetime_types)]]]]

\* Mutant: the parameter is not inserted.
AddLifetime_skipped(item) == item

\* Mutant: the parameter is inserted without looking for one already there.
AddLifetime_again(item) == [item EXCEPT !.lt = @ + 1]

\* item.generics.params.insert(0, 'a) when the item has no lifetime parameter
AddLifetime(item) == [item EXCEPT !.lt = IF @ = 0 THEN 1 ELSE @]

\* Mutant: the list of ignored types is not consulted.
visit_item_struct_mut_ignores_nothing(item, changed, mod, ignored) ==
    LET tf == [i \in 1..Len(item.fields) |-> transform_field(item.fields[i])]
        changed_any == \E i \in 1..Len(tf) :
                          \/ tf[i].modified
                          \/ type_uses_changed_type(tf[i].field.ty, changed)
        eligible == derives_deserialize(item)
        item1 == IF ~eligible THEN item
                 ELSE LET it == [item EXCEPT
                                   !.fields = [i \in 1..Len(tf) |-> tf[i].field]]
                      IN  IF changed_any THEN AddLifetime(it) ELSE it
        changed1 == IF eligible /\ changed_any THEN changed \cup {item.name}
                    ELSE changed
        item2 == VisitItemTypes(item1, changed1)
    IN  [item |-> item2,
         changed |-> changed1,
         modified |-> \/ mod
                      \/ eligible /\ changed_any /\ item.lt = 0
                      \/ item2 # item1]

\* Mutant: the list of ignored types is not consulted.
visit_item_enum_mut_ignores_nothing(item, changed, mod, ignored) ==
    LET tf == [i \in 1..Len(item.fields) |-> transform_field(item.fields[i])]
        requires_lifetime ==
            \E i \in 1..Len(tf) :
                \/ tf[i].modified
                \/ /\ ~is_reference_type(tf[i].field.ty)
                   /\ type_contains_lifetime(tf[i].field.ty)
        eligible == derives_deserialize(item)
        item1 == IF ~eligible THEN item
                 ELSE LET it == [item EXCEPT
                                   !.fields = [i \in 1..Len(tf) |-> tf[i].field]]
                      IN  IF requires_lifetime THEN AddLifetime(it) ELSE it
        changed1 == IF eligible /\ requires_lifetime THEN changed \cup {item.name}
                    ELSE changed
        item2 == VisitItemTypes(item1, changed1)
    IN  [item |-> item2,
         changed |-> changed1,
         modified |-> \/ mod
                      \/ eligible /\ requires_lifetime /\ item.lt = 0
                      \/ item2 # item1]

\* Mutant: the enum's lifetime parameter is set from this pass's finding
\* alone, so a pass that requires nothing drops it.
visit_item_enum_mut_resets_lifetime(item, changed, mod, ignored) ==
    LET tf == [i \in 1..Len(item.fields) |-> transform_field(item.fields[i])]
        requires_lifetime ==
            \E i \in 1..Len(tf) :
                \/ tf[i].modified
                \/ /\ ~is_reference_type(tf[i].field.ty)
                   /\ type_contains_lifetime(tf[i].field.ty)
        eligible == derives_deserialize(item) /\ item.name \notin ignored
        item1 == IF ~eligible THEN item
                 ELSE [item EXCEPT
                         !.fields = [i \in 1..Len(tf) |-> tf[i].field],
                         !.lt = IF requires_lifetime THEN 1 ELSE 0]
        changed1 == IF eligible /\ requires_lifetime THEN changed \cup {item.name}
                    ELSE changed
        item2 == VisitItemTypes(item1, changed1)
    IN  [item |-> item2,
         changed |-> changed1,
         modified |-> \/ mod
                      \/ eligible /\ requires_lifetime /\ item.lt = 0
                      \/ item2 # item1]

\* Each visit_item_* returns the item, the transformer's changed_types and
\* its modified flag after the visit.
visit_item_struct_mut(item, changed, mod, ignored) ==
    LET tf == [i \in 1..Len(item.fields) |-> transform_field(item.fields[i])]
        changed_any == \E i \in 1..Len(tf) :
                          \/ tf[i].modified
                          \/ type_uses_changed_type(tf[i].field.ty, changed)
        eligible == item.name \notin ignored /\ derives_deserialize(item)
        item1 == IF ~eligible THEN item
                 ELSE LET it == [item EXCEPT
                                   !.fields = [i \in 1..Len(tf) |-> tf[i].field]]
                      IN  IF changed_any THEN AddLifetime(it) ELSE it
        changed1 == IF eligible /\ changed_any THEN changed \cup {item.name}
                    ELSE changed
        item2 == VisitItemTypes(item1, changed1)
    IN  [item |-> item2,
         changed |-> changed1,
         modified |-> \/ mod
                      \/ eligible /\ changed_any /\ item.lt = 0
                      \/ item2 # item1]

visit_item_enum_mut(item, changed, mod, ignored) ==
    LET tf == [i \in 1..Len(item.fields) |-> transform_field(item.fields[i])]
        requires_lifetime ==
            \E i \in 1..Len(tf) :
                \/ tf[i].modified
                \/ /\ ~is_reference_type(tf[i].field.ty)
                   /\ type_contains_lifetime(tf[i].field.ty)
        eligible == derives_deserialize(item) /\ item.name \notin ignored
        item1 == IF ~eligible THEN item
                 ELSE LET it == [item EXCEPT
                                   !.fields = [i \in 1..Len(tf) |-> tf[i].field]]
                      IN  IF requires_lifetime THEN AddLifetime(it) ELSE it
        changed1 == IF eligible /\ requires_lifetime THEN changed \cup {item.name}
                    ELSE changed
        item2 == VisitItemTypes(item1, changed1)
    IN  [item |-> item2,
         changed |-> changed1,
         modified |-> \/ mod
                      \/ eligible /\ requires_lifetime /\ item.lt = 0
                      \/ item2 # item1]

impl_contains_changed_type(item_impl, changed) ==
    \/ type_uses_changed_type(item_impl.fields[1].ty, changed)
    \/ \E i \in 1..Len(item_impl.trait) :
          type_uses_changed_type(item_impl.trait[i], changed)

visit_item_impl_mut(item, changed, mod, ignored) ==
    LET hit == impl_contains_changed_type(item, changed)
        item1 == IF hit THEN AddLifetime(item) ELSE item
        item2 == VisitItemTypes(item1, changed)
    IN  [item |-> item2,
         changed |-> changed,
         modified |-> mod \/ (hit /\ item.lt = 0) \/ item2 # item1]

collect_lifetime_types(file) ==
    {file[i].name : i \in {j \in 1..Len(file) :
                              file[j].kind \in {"struct", "enum"} /\ file[j].lt > 0}}

\* Phase 2 of one iteration: LifetimeUsageTransformer over the whole file.
UsagePass(file) ==
    LET lifetime_types == collect_lifetime_types(file)
    IN  [i \in 1..Len(file) |-> UsageVisitItemTypes(file[i], lifetime_types)]

\* visit_file_mut hands an item to the visitor of its kind.
visit_item_mut(item, changed, mod, ignored) ==
    CASE item.kind = "struct" -> visit_item_struct_mut(item, changed, mod, ignored)
      [] item.kind = "enum" -> visit_item_enum_mut(item, changed, mod, ignored)
      [] OTHER -> visit_item_impl_mut(item, changed, mod, ignored)

\* Phase 1 of one iteration from item i on: the file after the pass and the
\* transformer's modified flag.
RECURSIVE SerdeBorrowPass(_, _, _, _, _)
SerdeBorrowPass(file, i, changed, mod, ignored) ==
    IF i > Len(file) THEN [file |-> file, modified |-> mod]
    ELSE LET r == visit_item_mut(file[i], changed, mod, ignored)
         IN  SerdeBorrowPass([file EXCEPT ![i] = r.item], i + 1,
                             r.changed, r.modified, ignored)

\* transform_ast as a function of its arguments: the loop, at most n more
\* iterations of it.
RECURSIVE transform_ast_loop(_, _, _)
transform_ast_loop(file, ignored, n) ==
    LET p1 == SerdeBorrowPass(file, 1, {}, FALSE, ignored)
        p2 == UsagePass(p1.file)
    IN  IF n = 0 \/ ~(p1.modified \/ p2 # p1.file) THEN p2
        ELSE transform_ast_loop(p2, ignored, n - 1)

\* ----------------------------------------------------------------- inputs

TypeItem(kind, name, derives, tys) ==
    [kind |-> kind, name |-> name, derives |-> derives, lt |-> 0,
     fields |-> [i \in 1..Len(tys) |-> Field(tys[i])], trait |-> <<>>]

ImplItem(self_ty, trait) ==
    [kind |-> "impl", name |-> "", derives |-> FALSE, lt |-> 0,
     fields |-> <<Field(self_ty)>>, trait |-> trait]

String == Path("String", <<>>)
I64 == Path("i64", <<>>)
Named(n) == Path(n, <<>>)
Option(t) == Path("Option", <<t>>)
Vec(t) == Path("Vec", <<t>>)
\* ::serde_json::Map<String, V>
JsonMap(v) == Path("Map", <<String, v>>)
HashMap(v) == Path("HashMap", <<String, v>>)

InsertAt(s, p, x) == SubSeq(s, 1, p - 1) \o <<x>> \o SubSeq(s, p, Len(s))

Kinds == {"struct", "enum"}

\* The transformer looks at no wrapper's name but Map's: Option and Vec stand
\* for every one-argument wrapper, HashMap for a two-argument one.
Value == Path("Value", <<>>)

PlainTypes(names) ==
    {String, I64} \cup {Named(n) : n \in names}
                  \cup {Option(Named(n)) : n \in names}

AllTypes(names) ==
    {String, I64, Named("Z"), Option(String), Vec(Option(String)),
     HashMap(String), JsonMap(Value)}
        \cup {Named(n) : n \in names}
        \cup {Option(Named(n)) : n \in names}
        \cup {JsonMap(Named(n)) : n \in names}
        \cup {Path(n, <<I64>>) : n \in names}

FieldLists(names) ==
    {<<t>> : t \in AllTypes(names)}
        \cup {<<String, Named(n)>> : n \in names}
        \cup {<<Named(n), I64>> : n \in names}

Names3 == {"A", "B", "C"}
Names2 == {"A", "B"}

\* Family 1: three definitions that all derive Deserialize, X empty, each
\* with one field that is text, a number, or a plain or once-wrapped
\* reference to any of the three (cycles, self references and forward
\* references included).
Input1(f, x) ==
    LET C == Kinds \X (PlainTypes(Names3) \cup {Vec(Named(n)) : n \in Names3})
    IN  \E a \in C, b \in C, c \in C :
            /\ f = <<TypeItem(a[1], "A", TRUE, <<a[2]>>),
                     TypeItem(b[1], "B", TRUE, <<b[2]>>),
                     TypeItem(c[1], "C", TRUE, <<c[2]>>)>>
            /\ x = {}

\* Family 2: three such definitions of which one is named in X or does not
\* derive Deserialize.
Input2(f, x) ==
    LET C == Kinds \X PlainTypes(Names3)
    IN  \E a \in C, b \in C, c \in C, n \in Names3, inX \in BOOLEAN :
            /\ f = <<TypeItem(a[1], "A", inX \/ n # "A", <<a[2]>>),
                     TypeItem(b[1], "B", inX \/ n # "B", <<b[2]>>),
                     TypeItem(c[1], "C", inX \/ n # "C", <<c[2]>>)>>
            /\ x = IF inX THEN {n} ELSE {}

\* Family 3: two definitions, deriving or not, at most one of them in X, with
\* one or two fields drawn from every shape of field type: text at depth 0, 1
\* and 2, both arguments of a two-argument wrapper, the free-form JSON map,
\* a map or a generic instantiation over a definition, an undefined name.
Input3(f, x) ==
    LET C == Kinds \X BOOLEAN \X FieldLists(Names2)
    IN  \E a \in C, b \in C, ign \in {{}, {"A"}, {"B"}} :
            /\ f = <<TypeItem(a[1], "A", a[2], a[3]),
                     TypeItem(b[1], "B", b[2], b[3])>>
            /\ x = ign

\* Family 4: two deriving definitions and one impl block, before, between or
\* after them, for either of them, inherent or of a trait whose path names
\* one of them in its arguments.
Input4(f, x) ==
    LET C == Kinds \X ({String, I64} \cup {Named(n) : n \in Names2})
        T == {<<>>, <<Path("Default", <<>>)>>}
                \cup {<<Path("From", <<Named(n)>>)>> : n \in Names2}
    IN  \E a \in C, b \in C, p \in 1..3, n \in Names2, t \in T :
            /\ f = InsertAt(<<TypeItem(a[1], "A", TRUE, <<a[2]>>),
                              TypeItem(b[1], "B", TRUE, <<b[2]>>)>>,
                            p, ImplItem(Named(n), t))
            /\ x = {}

\* Family 5: two deriving definitions, X empty, whose one field is text, a
\* number or a reference to one of the two, and carries or not a doc comment
\* whose text contains "borrow".
Input5(f, x) ==
    LET C == Kinds \X ({String, I64} \cup {Named(n) : n \in Names2}) \X {0, 1}
        item(n, c) == [TypeItem(c[1], n, TRUE, <<c[2]>>)
                          EXCEPT !.fields[1].borrow = c[3]]
    IN  \E a \in C, b \in C :
            /\ f = <<item("A", a), item("B", b)>>
            /\ x = {}

\* The server is not running while the build script is.
ServerOff ==
    /\ spc = "off"
    /\ buf = <<>>
    /\ msg = <<>>
    /\ response = <<>>
    /\ sent = <<>>
    /\ received = 0
    /\ requests = <<>>
    /\ server = <<>>

\* main has been entered: nothing is read, parsed or written yet.
BuildNotStarted ==
    /\ ast = <<>>
    /\ input = <<>>
    /\ ignored_types = {}
    /\ pc = "main"
    /\ idx = 1
    /\ changed_types = {}
    /\ modified = FALSE
    /\ iter = 0
    /\ run = 0
    /\ before = <<>>
    /\ out = <<>>

Init == BuildNotStarted /\ ServerOff

\* ---------------------------------------------------------------- actions

MaxRuns == 2
IterCap == 8

\* main up to the call of transform_ast: the schema is read and parsed, typify
\* builds the type space and its token stream parses as a syn::File.
LoadSchema ==
    /\ pc = "main"
    /\ \/ Input1(ast', ignored_types')
       \/ Input2(ast', ignored_types')
       \/ Input3(ast', ignored_types')
       \/ Input4(ast', ignored_types')
       \/ Input5(ast', ignored_types')
    /\ input' = ast'
    /\ before' = ast'
    /\ pc' = "phase1"
    /\ idx' = 1
    /\ changed_types' = {}
    /\ modified' = FALSE
    /\ iter' = 1
    /\ run' = 1
    /\ UNCHANGED out
    /\ UNCHANGED svars

\* One of the unwrap() calls of main fails before the file is written:
\* reading or parsing the schema, add_root_schema, syn::parse2 (pc = "main"),
\* or env::var("OUT_DIR") after the transformation (pc = "done").
Abort ==
    /\ pc \in {"main", "done"}
    /\ run <= 1
    /\ pc' = "aborted"
    /\ UNCHANGED <<ast, input, ignored_types, idx, changed_types, modified, iter, run,
                    before, out>>
    /\ UNCHANGED svars

\* Mutant: the file is written from inside the loop as well.
WriteOutput_inside_loop ==
    /\ pc \in {"check", "done"}
    /\ run = 1
    /\ out' = <<ast>>
    /\ pc' = "written"
    /\ UNCHANGED <<ast, input, ignored_types, idx, changed_types, modified, iter, run,
                    before>>
    /\ UNCHANGED svars

\* fs::write(out_file, prettyplease::unparse(&parsed))
WriteOutput ==
    /\ pc = "done"
    /\ run = 1
    /\ out' = <<ast>>
    /\ pc' = "written"
    /\ UNCHANGED <<ast, input, ignored_types, idx, changed_types, modified, iter, run,
                    before>>
    /\ UNCHANGED svars

\* visit_file_mut hands the next item to the visitor of its kind.
Phase1Struct ==
    /\ pc = "phase1"
    /\ idx <= Len(ast)
    /\ ast[idx].kind = "struct"
    /\ LET r == visit_item_struct_mut(ast[idx], changed_types, modified, ignored_types)
       IN  /\ ast' = [ast EXCEPT ![idx] = r.item]
           /\ changed_types' = r.changed
           /\ modified' = r.modified
    /\ idx' = idx + 1
    /\ UNCHANGED <<input, ignored_types, pc, iter, run, before, out>>
    /\ UNCHANGED svars

Phase1Enum ==
    /\ pc = "phase1"
    /\ idx <= Len(ast)
    /\ ast[idx].kind = "enum"
    /\ LET r == visit_item_enum_mut(ast[idx], changed_types, modified, ignored_types)
       IN  /\ ast' = [ast EXCEPT ![idx] = r.item]
           /\ changed_types' = r.changed
           /\ modified' = r.modified
    /\ idx' = idx + 1
    /\ UNCHANGED <<input, ignored_types, pc, iter, run, before, out>>
    /\ UNCHANGED svars

Phase1Impl ==
    /\ pc = "phase1"
    /\ idx <= Len(ast)
    /\ ast[idx].kind = "impl"
    /\ LET r == visit_item_impl_mut(ast[idx], changed_types, modified, ignored_types)
       IN  /\ ast' = [ast EXCEPT ![idx] = r.item]
           /\ changed_types' = r.changed
           /\ modified' = r.modified
    /\ idx' = idx + 1
    /\ UNCHANGED <<input, ignored_types, pc, iter, run, before, out>>
    /\ UNCHANGED svars

\* Mutant: the usage pass reports a change in every iteration.
Phase2_reports_always ==
    /\ pc = "phase1"
    /\ idx > Len(ast)
    /\ ast' = UsagePass(ast)
    /\ modified' = TRUE
    /\ pc' = "check"
    /\ UNCHANGED <<input, ignored_types, idx, changed_types, iter, run, before, out>>
    /\ UNCHANGED svars

\* visit_file_mut has handed every item to the phase-1 visitor: phase 2 runs.
Phase2 ==
    /\ pc = "phase1"
    /\ idx > Len(ast)
    /\ ast' = UsagePass(ast)
    /\ modified' = (modified \/ ast' # ast)
    /\ pc' = "check"
    /\ UNCHANGED <<input, ignored_types, idx, changed_types, iter, run, before, out>>
    /\ UNCHANGED svars

\* if !modified { break; }
LoopBreak ==
    /\ pc = "check"
    /\ ~modified
    /\ pc' = "done"
    /\ UNCHANGED <<ast, input, ignored_types, idx, changed_types, modified, iter, run,
                    before, out>>
    /\ UNCHANGED svars

LoopAgain ==
    /\ pc = "check"
    /\ modified
    /\ iter < IterCap
    /\ pc' = "phase1"
    /\ idx' = 1
    /\ changed_types' = {}
    /\ modified' = FALSE
    /\ iter' = iter + 1
    /\ before' = ast
    /\ UNCHANGED <<ast, input, ignored_types, run, out>>
    /\ UNCHANGED svars

\* transform_ast is called again on the file it returned, with the same X.
Rerun ==
    /\ pc = "done"
    /\ run < MaxRuns
    /\ run' = run + 1
    /\ pc' = "phase1"
    /\ idx' = 1
    /\ changed_types' = {}
    /\ modified' = FALSE
    /\ iter' = 1
    /\ before' = ast
    /\ UNCHANGED <<ast, input, ignored_types, out>>
    /\ UNCHANGED svars

Next ==
    \/ LoadSchema
    \/ Abort
    \/ WriteOutput
    \/ Phase1Struct
    \/ Phase1Enum
    \/ Phase1Impl
    \/ Phase2
    \/ LoopBreak
    \/ LoopAgain
    \/ Rerun

Spec == Init /\ [][Next]_vars

transform_ast(file, ignored) == transform_ast_loop(file, ignored, IterCap)

\* ----------------------------------------------------------------- server

\* One line read from the transport, as far as the envelope looks at it: a
\* JSON object with or without each of the members jsonrpc, id, method,
\* result and error.  jsonrpc is the content of that member; escaped says
\* its text is written with an escape sequence (the six characters
\* backslash, u, 0, 0, 2, e for the dot of 2.0); params says the params
\* member decodes as the payload its method names; error says the members
\* other than jsonrpc decode as the other fields of original::JsonrpcError.
ClientRequestMethods ==
    {"initialize", "ping", "resources/list", "resources/templates/list",
     "resources/read", "resources/subscribe", "resources/unsubscribe",
     "prompts/list", "prompts/get", "tools/list", "tools/call",
     "logging/setlevel", "completion/complete"}

ClientNotificationMethods ==
    {"notifications/cancelled", "notifications/initialized",
     "notifications/progress", "notifications/roots/list_changed"}

WireMessages ==
    {m \in [jsonrpc : {"absent", "2.0", "1.0"},
            escaped : BOOLEAN,
            id      : {"absent", "1", "2"},
            method  : ClientRequestMethods \cup ClientNotificationMethods
                          \cup {"absent", "unknown"},
            params  : BOOLEAN,
            result  : BOOLEAN,
            error   : BOOLEAN] :
        m.jsonrpc = "absent" => ~m.escaped}

\* Deserialize for String: any JSON string, copied.
String_deserialize(m) == m.jsonrpc # "absent"

\* Deserialize for &'a str: a JSON string that can be borrowed from the
\* input, that is one written without escape sequences.
str_deserialize(m) == m.jsonrpc # "absent" /\ ~m.escaped

\* Whether the members of m decode as the fields of variant v; text says
\* whether the jsonrpc member decodes as the variant's jsonrpc field.
\* Members no field names are ignored.
Matches(v, m, text) ==
    CASE v = "Request" ->
            text /\ m.id # "absent" /\ m.method \in ClientRequestMethods /\ m.params
      [] v = "Notification" ->
            text /\ m.method \in ClientNotificationMethods /\ m.params
      [] v = "Error" -> text /\ m.error
      [] v = "Response" -> text /\ m.id # "absent" /\ m.result

\* The variants of the owned and of the view envelope in declaration order,
\* the order #[serde(untagged)] tries them in.
Message_variants == <<"Request", "Notification", "Error", "Response">>

\* Mutant: the view envelope declares Response before Error.
zerocopy_Message_variants_response_first ==
    <<"Request", "Notification", "Response", "Error">>

zerocopy_Message_variants == <<"Request", "Notification", "Error", "Response">>

DecodeError ==
    [variant |-> "Err", jsonrpc |-> "absent", id |-> "absent", method |-> "absent"]

\* #[serde(untagged)]: the first variant, in declaration order, that the
\* message decodes as; an error when there is none.
untagged(variants, m, text) ==
    LET ok == {i \in 1..Len(variants) : Matches(variants[i], m, text)}
        v  == variants[CHOOSE i \in ok : \A j \in ok : i <= j]
    IN  IF ok = {} THEN DecodeError
        ELSE [variant |-> v,
              jsonrpc |-> m.jsonrpc,
              id      |-> IF v \in {"Request", "Response"} THEN m.id ELSE "absent",
              method  |-> IF v \in {"Request", "Notification"}
                          THEN m.method ELSE "absent"]

\* serde_json::from_slice::<schema::ClientMessage>
Message_deserialize(m) == untagged(Message_variants, m, String_deserialize(m))

\* serde_json::from_slice::<schema::zerocopy::ClientMessage>
zerocopy_Message_deserialize(m) ==
    untagged(zerocopy_Message_variants, m, str_deserialize(m))

validate_jsonrpc_version(val) == val = "2.0"

\* The requests run answers; every other request reaches unimplemented!().
ImplementedMethods ==
    {"initialize", "ping", "resources/list", "prompts/list", "tools/list"}

ResultOf(method) ==
    CASE method = "initialize" -> "Initialize"
      [] method = "ping" -> "Empty"
      [] method = "resources/list" -> "ListResources"
      [] method = "prompts/list" -> "ListPrompts"
      [] method = "tools/list" -> "ListTools"

\* Mutant: the response is tagged "2.0" whatever tag the request carried.
respond_to_fixed_version(jsonrpc, id, result) ==
    [variant |-> "Response", jsonrpc |-> "2.0", id |-> id, result |-> result]

respond_to(jsonrpc, id, result) ==
    [variant |-> "Response", jsonrpc |-> jsonrpc, id |-> id, result |-> result]

MaxMessages == 2

\* A line none of whose members is there: the object {}, bytes that are no
\* JSON object, and the empty buffer read_until returns at end of input.
EmptyBuffer ==
    [jsonrpc |-> "absent", escaped |-> FALSE, id |-> "absent", method |-> "absent",
     params |-> FALSE, result |-> FALSE, error |-> FALSE]

\* MCPServer::new: the fields of the server it constructs.
MCPServer_new(instructions, tools, resources) ==
    [name |-> "name", version |-> "version", instructions |-> instructions,
     tools |-> tools, resources |-> resources, client_initialized |-> FALSE]

\* MCPServer::new has run and run has been entered; the build script is not
\* part of this specification.
ServerInit ==
    /\ BuildNotStarted
    /\ spc = "recv"
    /\ buf = <<>>
    /\ msg = <<>>
    /\ response = <<>>
    /\ sent = <<>>
    /\ received = 0
    /\ requests = <<>>
    /\ \E i \in {"None", "Some"} : server = <<MCPServer_new(i, {}, {})>>

\* self.transport.recv().await returns a line, in a buffer of its own.
recv ==
    /\ spc = "recv"
    /\ received < MaxMessages
    /\ \E m \in WireMessages : buf' = <<m>>
    /\ received' = received + 1
    /\ spc' = "parse"
    /\ msg' = <<>>
    /\ response' = <<>>
    /\ UNCHANGED <<sent, requests, server>>
    /\ UNCHANGED bvars

\* recv returns an io::Error and unwrap() panics.
recv_Err ==
    /\ spc = "recv"
    /\ spc' = "panicked"
    /\ UNCHANGED <<buf, msg, response, sent, received, requests, server>>
    /\ UNCHANGED bvars

\* A decoding step that skips a line it cannot decode and goes on.
from_slice_skips_undecodable ==
    /\ spc = "parse"
    /\ LET d == zerocopy_Message_deserialize(buf[1])
       IN  IF d = DecodeError
           THEN spc' = "recv" /\ msg' = <<>> /\ buf' = <<>>
           ELSE spc' = "handle" /\ msg' = <<d>> /\ buf' = buf
    /\ UNCHANGED <<response, sent, received, requests, server>>
    /\ UNCHANGED bvars

\* let msg: ClientMessage = serde_json::from_slice(&msg).unwrap();
from_slice ==
    /\ spc = "parse"
    /\ LET d == zerocopy_Message_deserialize(buf[1])
       IN  IF d = DecodeError
           THEN spc' = "panicked" /\ msg' = <<>>
           ELSE spc' = "handle" /\ msg' = <<d>>
    /\ UNCHANGED <<buf, response, sent, received, requests, server>>
    /\ UNCHANGED bvars

\* A loop body whose Notification arm records notifications/initialized in
\* client_initialized.
match_msg_marks_initialized ==
    /\ spc = "handle"
    /\ IF msg[1].variant = "Request"
       THEN IF msg[1].method \in ImplementedMethods
            THEN /\ response' = <<respond_to(msg[1].jsonrpc, msg[1].id,
                                             ResultOf(msg[1].method))>>
                 /\ spc' = "send"
                 /\ UNCHANGED <<buf, msg>>
            ELSE /\ response' = <<>>
                 /\ spc' = "panicked"
                 /\ UNCHANGED <<buf, msg>>
       ELSE /\ response' = <<>>
            /\ spc' = "recv"
            /\ msg' = <<>>
            /\ buf' = <<>>
    /\ UNCHANGED <<sent, received>>
    /\ server' = IF msg[1].variant = "Notification"
                    /\ msg[1].method = "notifications/initialized"
                 THEN <<[server[1] EXCEPT !.client_initialized = TRUE]>>
                 ELSE server
    /\ requests' = IF msg[1].variant = "Request" /\ msg[1].method \in ImplementedMethods
                   THEN Append(requests, msg[1]) ELSE requests
    /\ UNCHANGED bvars

\* A loop body that gives the buffer up as soon as the message is decoded.
match_msg_releases_buffer ==
    /\ spc = "handle"
    /\ IF msg[1].variant = "Request"
       THEN IF msg[1].method \in ImplementedMethods
            THEN /\ response' = <<respond_to(msg[1].jsonrpc, msg[1].id,
                                             ResultOf(msg[1].method))>>
                 /\ spc' = "send"
                 /\ msg' = msg
                 /\ buf' = <<>>
            ELSE /\ response' = <<>>
                 /\ spc' = "panicked"
                 /\ UNCHANGED <<buf, msg>>
       ELSE /\ response' = <<>>
            /\ spc' = "recv"
            /\ msg' = <<>>
            /\ buf' = <<>>
    /\ UNCHANGED <<sent, received, server>>
    /\ requests' = IF msg[1].variant = "Request" /\ msg[1].method \in ImplementedMethods
                   THEN Append(requests, msg[1]) ELSE requests
    /\ UNCHANGED bvars

\* match msg { .. }: a request with an implemented method gets its response
\* built; another request reaches unimplemented!(); for every other message
\* the arm is empty, the loop body ends and its locals are dropped, the
\* decoded message before the buffer it borrows from.
match_msg ==
    /\ spc = "handle"
    /\ IF msg[1].variant = "Request"
       THEN IF msg[1].method \in ImplementedMethods
            THEN /\ response' = <<respond_to(msg[1].jsonrpc, msg[1].id,
                                             ResultOf(msg[1].method))>>
                 /\ spc' = "send"
                 /\ UNCHANGED <<buf, msg>>
            ELSE /\ response' = <<>>
                 /\ spc' = "panicked"
                 /\ UNCHANGED <<buf, msg>>
       ELSE /\ response' = <<>>
            /\ spc' = "recv"
            /\ msg' = <<>>
            /\ buf' = <<>>
    /\ UNCHANGED <<sent, received, server>>
    /\ requests' = IF msg[1].variant = "Request" /\ msg[1].method \in ImplementedMethods
                   THEN Append(requests, msg[1]) ELSE requests
    /\ UNCHANGED bvars

\* self.transport.send(&serialized).await returns Ok; the loop body ends
\* and its locals are dropped: the response, the decoded message, then the
\* buffer they borrow from.
send ==
    /\ spc = "send"
    /\ sent' = Append(sent, response[1])
    /\ spc' = "recv"
    /\ response' = <<>>
    /\ msg' = <<>>
    /\ buf' = <<>>
    /\ UNCHANGED <<received, requests, server>>
    /\ UNCHANGED bvars

\* send returns an io::Error and unwrap() panics.
send_Err ==
    /\ spc = "send"
    /\ spc' = "panicked"
    /\ UNCHANGED <<buf, msg, response, sent, received, requests, server>>
    /\ UNCHANGED bvars

ServerNext ==
    \/ recv
    \/ recv_Err
    \/ from_slice
    \/ match_msg
    \/ send
    \/ send_Err

ServerSpec == ServerInit /\ [][ServerNext]_vars

\* ------------------------------------------------- vocabulary of the claims

\* R: the definitions that carry the view-scope parameter.
R == collect_lifetime_types(ast)

AtFixpoint == pc = "done"

TypeDefs(file) == {i \in 1..Len(file) : file[i].kind \in {"struct", "enum"}}

NumTypes == Cardinality(TypeDefs(ast))

\* A designated deserialization target that is not excluded.
Eligible(item) == derives_deserialize(item) /\ item.name \notin ignored_types

\* ty names the definition n somewhere (itself or in an argument).
RECURSIVE References(_, _)
References(ty, n) ==
    /\ ty.k # "lt"
    /\ \/ ty.k = "path" /\ ty.id = n
       \/ \E i \in 1..Len(ty.args) : References(ty.args[i], n)

\* ... by a path that has no generic arguments of its own.
RECURSIVE ReferencesPlainly(_, _)
ReferencesPlainly(ty, n) ==
    /\ ty.k # "lt"
    /\ \/ ty.k = "path" /\ ty.id = n /\ ty.args \in {<<>>, <<LifetimeA>>}
       \/ \E i \in 1..Len(ty.args) : ReferencesPlainly(ty.args[i], n)

IsJsonMap(ty) == ty.k = "path" /\ ty.id = "Map"

\* ---------------------------------------------------------------- claims

\* C1: at the fixpoint, if T has a field that is not itself a view and whose
\* type references U, and U is in R, then T is in R.  Stated over the
\* definitions the transformation upgrades and the references it completes
\* (T derives Deserialize and is not in X; the field is not headed by the
\* free-form JSON Map; the reference to U has no arguments of its own), so
\* that a violation is one of the claim however "all definitions" is read.
C1_Closure ==
    AtFixpoint =>
        \A t \in TypeDefs(ast), u \in TypeDefs(ast) :
            (/\ Eligible(ast[t])
             /\ ast[u].name \in R
             /\ \E f \in 1..Len(ast[t].fields) :
                   /\ ~is_reference_type(ast[t].fields[f].ty)
                   /\ ~IsJsonMap(ast[t].fields[f].ty)
                   /\ ReferencesPlainly(ast[t].fields[f].ty, ast[u].name))
                => ast[t].name \in R

\* C2: in every state of the propagation, no name in X is in the changed set
\* of the pass or carries the view-scope parameter.
C2_ExclusionInvariant ==
    \A n \in ignored_types : n \notin changed_types /\ n \notin R

\* An excluded definition with a text field has been visited in a pass that
\* put another definition in R.
C2_Witness ==
    /\ pc = "check"
    /\ R # {}
    /\ \E t \in TypeDefs(ast) :
          /\ ast[t].name \in ignored_types
          /\ derives_deserialize(ast[t])
          /\ input[t].fields[1].ty = String

\* C3: a second run of transform_ast on the graph a completed run produced
\* changes nothing in the graph (so R does not grow and nothing is
\* rewritten) and exits after its first iteration.
C3_Idempotence ==
    [][run' >= 2 => (ast' = ast /\ (pc' = "done" => iter' = 1))]_vars

\* A second run has completed on a graph the first run had rewritten.
C3_Witness ==
    /\ run = 2
    /\ AtFixpoint
    /\ ast # input
    /\ Cardinality(R) >= 2

\* C4: R never shrinks: whatever carries the parameter before a step of the
\* loop carries it after the step, hence from the end of an iteration to the
\* end of the next.
C4_Monotonicity ==
    [][collect_lifetime_types(ast) \subseteq collect_lifetime_types(ast')]_vars

\* Third iteration under way with R already holding two definitions.
C4_Witness ==
    /\ iter = 3
    /\ pc = "check"
    /\ Cardinality(R) >= 2

Permuted(file, p) == [i \in 1..Len(file) |-> file[p[i]]]

Items(file) == {file[i] : i \in 1..Len(file)}

\* The steps of the loop compute transform_ast.
StepsComputeTransformAst ==
    (AtFixpoint /\ run = 1) => ast = transform_ast(input, ignored_types)

\* C6: whatever the order of the items in the input, transform_ast ends with
\* the same R and the same rewritten items.
C6_OrderIndependence ==
    (AtFixpoint /\ run = 1) =>
        \A p \in Permutations(1..Len(input)) :
            LET other == transform_ast(Permuted(input, p), ignored_types)
            IN  /\ collect_lifetime_types(other) = R
                /\ Items(other) = Items(ast)

\* --- reachability in the input graph

\* ty holds text where transform_field rewrites it: bare, or as a direct
\* argument of a wrapper that is not the free-form JSON Map.
HasTextLeaf(ty) ==
    \/ is_string_type(ty)
    \/ /\ ty.k = "path"
       /\ ~IsJsonMap(ty)
       /\ \E i \in 1..Len(ty.args) : is_string_type(ty.args[i])

TextBearing(item) == \E f \in 1..Len(item.fields) : HasTextLeaf(item.fields[f].ty)

\* ty refers to definition n, by a path without arguments, directly or as a
\* direct argument of a wrapper that is not the free-form JSON Map.
RefersPlainlyWithinOneLevel(ty, n) ==
    /\ ty.k = "path"
    /\ \/ ty = Named(n)
       \/ /\ ~IsJsonMap(ty)
          /\ \E i \in 1..Len(ty.args) : ty.args[i] = Named(n)

\* The definitions (indices into the input) from which a definition of
\* `goal` is reached by edges `edge` through definitions of `via`, in at most
\* k steps.
RECURSIVE ReachesIn(_, _, _, _)
ReachesIn(goal, via, edge(_, _), k) ==
    IF k = 0 THEN goal
    ELSE LET S == ReachesIn(goal, via, edge, k - 1)
         IN  S \cup {t \in via : \E u \in S : edge(t, u)}

Reaches(goal, via, edge(_, _)) == ReachesIn(goal, via, edge, Len(input))

NamesOf(S) == {input[i].name : i \in S}

EligibleDefs == {i \in TypeDefs(input) : Eligible(input[i])}

TextBearingDefs == {i \in EligibleDefs : TextBearing(input[i])}

PlainOneLevelEdge(t, u) ==
    \E f \in 1..Len(input[t].fields) :
        RefersPlainlyWithinOneLevel(input[t].fields[f].ty, input[u].name)

AnyEdge(t, u) ==
    \E f \in 1..Len(input[t].fields) :
        References(input[t].fields[f].ty, input[u].name)

\* A{field: Text}, B{inner: A}, C{list: Sequence<B>}, X empty, the three
\* definitions at positions a, b and c of the file.
IsChainAt(a, b, c) ==
    /\ {a, b, c} = 1..3 /\ Len(input) = 3 /\ ignored_types = {}
    /\ \A i \in 1..3 : input[i].kind = "struct" /\ input[i].derives
    /\ input[a].fields = <<Field(String)>>
    /\ input[b].fields = <<Field(Named(input[a].name))>>
    /\ input[c].fields = <<Field(Vec(Named(input[b].name)))>>

\* C7: the chain scenario ends with R = {A, B, C} in every order, and every
\* eligible definition from which an eligible text-bearing definition is
\* reachable through direct or one-level-wrapped references is in R at the
\* fixpoint.  Reachability is taken through eligible definitions only, by
\* references without arguments of their own, under wrappers other than the
\* free-form JSON Map: the reading under which the fewest definitions are
\* required to be in R.
C7_TransitivePropagation ==
    AtFixpoint =>
        /\ (\E a, b, c \in 1..3 : IsChainAt(a, b, c)) => R = {"A", "B", "C"}
        /\ NamesOf(Reaches(TextBearingDefs, EligibleDefs, PlainOneLevelEdge))
              \subseteq R

\* C8: if no eligible definition has a text leaf, R stays empty and no
\* definition is changed, cycles or not; and a definition in R is one from
\* which a text leaf of an eligible definition is reachable.
C8_NoTriggerNoPropagation ==
    /\ TextBearingDefs = {} => (R = {} /\ ast = input)
    /\ R \subseteq NamesOf(Reaches(TextBearingDefs, TypeDefs(input), AnyEdge))

\* F{g: Option<G>}, G{f: Option<F>} at the fixpoint.
C8_Witness ==
    /\ AtFixpoint
    /\ run = 1
    /\ ignored_types = {}
    /\ input = <<TypeItem("struct", "A", TRUE, <<Option(Named("B"))>>),
                 TypeItem("struct", "B", TRUE, <<Option(Named("A"))>>)>>
    /\ R = {}

\* C9: an excluded definition is not in R and its text fields are not
\* rewritten; a definition whose only field is of an excluded type does not
\* enter R; and a definition in R reaches a text leaf of an eligible
\* definition through definitions none of which is excluded.
C9_ExclusionSink ==
    /\ \A t \in TypeDefs(ast) :
          ast[t].name \in ignored_types =>
              /\ ast[t].name \notin R
              /\ \A f \in 1..Len(ast[t].fields) :
                    HasTextLeaf(input[t].fields[f].ty) =>
                        ast[t].fields[f] = input[t].fields[f]
    /\ \A e \in TypeDefs(ast), d \in TypeDefs(ast) :
          (/\ ast[d].name \in ignored_types
           /\ input[e].fields = <<Field(Named(ast[d].name))>>)
              => ast[e].name \notin R
    /\ R \subseteq
          NamesOf(Reaches(TextBearingDefs,
                          {i \in TypeDefs(input) : input[i].name \notin ignored_types},
                          AnyEdge))

\* D{text: Text} in X and E{d: D} at a fixpoint whose R is not empty.
C9_Witness ==
    /\ AtFixpoint
    /\ run = 1
    /\ R # {}
    /\ \E d \in TypeDefs(ast), e \in TypeDefs(ast) :
          /\ ast[d].name \in ignored_types
          /\ derives_deserialize(ast[d])
          /\ input[d].fields = <<Field(String)>>
          /\ input[e].fields = <<Field(Named(ast[d].name))>>
          /\ Eligible(ast[e])

\* C10: at the fixpoint the definition of every type named in X is
\* identical to its definition in the input.
C10_ExcludedUntouched ==
    AtFixpoint =>
        \A t \in TypeDefs(ast) :
            ast[t].name \in ignored_types => ast[t] = input[t]

\* Every path in ty that names a member of `names` has the lifetime 'a among
\* its arguments.
RECURSIVE SuppliesParameter(_, _)
SuppliesParameter(ty, names) ==
    \/ ty.k = "lt"
    \/ /\ (ty.k = "path" /\ ty.id \in names) =>
              \E i \in 1..Len(ty.args) : ty.args[i] = LifetimeA
       /\ \A i \in 1..Len(ty.args) : SuppliesParameter(ty.args[i], names)

\* The types written in an item: its field types (an impl's self type) and
\* the arguments of an impl's trait path.
TypesOf(item) ==
    {item.fields[f].ty : f \in 1..Len(item.fields)}
        \cup UNION {{item.trait[i].args[j] : j \in 1..Len(item.trait[i].args)} :
                        i \in 1..Len(item.trait)}

\* C11: after every phase-2 pass, and so at the fixpoint, every type
\* reference in the file that names a member of R supplies the parameter,
\* references that already carry other generic arguments included.
C11_UsageSiteComplete ==
    pc \in {"check", "done"} =>
        \A i \in 1..Len(ast) : \A ty \in TypesOf(ast[i]) : SuppliesParameter(ty, R)

\* C13: the file main writes holds, for every type definition of the input,
\* an owned definition identical to the input's and the definition the
\* propagation produced for that name.
C13_DualEmission ==
    pc = "written" =>
        \A i \in TypeDefs(input) :
            /\ \E j \in 1..Len(out[1]) : out[1][j] = input[i]
            /\ \E j \in 1..Len(out[1]) : out[1][j] = ast[i]

\* The names of the paths written in a type.
RECURSIVE NamesIn(_)
NamesIn(ty) ==
    IF ty.k = "lt" THEN {}
    ELSE (IF ty.k = "path" THEN {ty.id} ELSE {})
            \cup UNION {NamesIn(ty.args[i]) : i \in 1..Len(ty.args)}

Defined(file) == {file[i].name : i \in TypeDefs(file)}

\* C16: a name no definition of the file bears is never in R nor in the
\* changed set of a pass, and a definition whose fields name only such names
\* (and hold no text where it is rewritten) never enters R.
C16_AbsentReference ==
    /\ R \subseteq Defined(input)
    /\ changed_types \subseteq Defined(input)
    /\ \A t \in TypeDefs(ast) :
          (\A f \in 1..Len(input[t].fields) :
              /\ NamesIn(input[t].fields[f].ty) \cap Defined(input) = {}
              /\ ~HasTextLeaf(input[t].fields[f].ty))
            => ast[t].name \notin R

\* A definition whose only field is of the undefined type Z, beside a
\* definition that entered R, at the fixpoint.
C16_Witness ==
    /\ AtFixpoint
    /\ R # {}
    /\ \E t \in TypeDefs(ast) :
          /\ Eligible(ast[t])
          /\ input[t].fields = <<Field(Named("Z"))>>
          /\ ast[t].name \notin R

\* C17: the output is written only once the loop has left at its fixpoint,
\* and it is the file transform_ast returns; a run that aborts has written
\* nothing.
C17_AllOrNothing ==
    /\ out # <<>> =>
          /\ pc = "written"
          /\ ~modified
          /\ out = <<transform_ast(input, ignored_types)>>
    /\ pc = "aborted" => out = <<>>

\* The output has been written after a loop of three iterations or more.
C17_Witness ==
    /\ pc = "written"
    /\ iter >= 3
    /\ out # <<input>>

\* C18: the loop goes on exactly when phase 1 or phase 2 changed the file in
\* the current iteration, so that in the iteration it leaves from the file
\* after phase 2 equals the file before phase 1, attributes included.
C18_FixpointDetection ==
    /\ pc = "check" => (modified <=> ast # before)
    /\ pc \in {"done", "written"} => ast = before

\* C20: at the fixpoint every impl block whose self type or trait path
\* references a member of R carries the parameter, wherever the block stands.
C20_ImplUpgrade ==
    AtFixpoint =>
        \A i \in 1..Len(ast) :
            (/\ ast[i].kind = "impl"
             /\ \E n \in R :
                   \/ References(ast[i].fields[1].ty, n)
                   \/ \E t \in 1..Len(ast[i].trait) : References(ast[i].trait[t], n))
                => ast[i].lt > 0

\* The schemas on which termination is checked: two deriving definitions
\* whose one or two fields are text, a number or a plain reference to either
\* of the two (cycles through text, self references, forward references), or
\* two of them and an inherent impl block; X empty.
LoadCyclicSchema ==
    /\ LoadSchema
    /\ ignored_types' = {}
    /\ \A i \in 1..Len(ast') :
          \/ ast'[i].kind = "impl" /\ ast'[i].trait = <<>>
          \/ /\ derives_deserialize(ast'[i])
             /\ \A f \in 1..Len(ast'[i].fields) :
                   /\ ast'[i].fields[f].borrow = 0
                   /\ ast'[i].fields[f].ty \in
                         {String, I64} \cup {Named(n) : n \in Names2}
    /\ Len(ast') = 3 => \E i \in 1..3 : ast'[i].kind = "impl"

\* One step of a call of transform_ast.
LoopStep ==
    \/ Phase1Struct
    \/ Phase1Enum
    \/ Phase1Impl
    \/ Phase2
    \/ LoopBreak
    \/ LoopAgain

TermNext == LoadCyclicSchema \/ LoopStep

\* The build script keeps running: a step of the loop that can be taken is
\* taken.
TermSpec == Init /\ [][TermNext]_vars /\ WF_vars(LoopStep)

\* C19: every call of transform_ast returns: once its loop has been entered,
\* the loop is eventually left, whatever cycles, self references and forward
\* references the file holds.
C19_Termination == (pc = "phase1") ~> (pc = "done")

\* A call has returned, after three iterations or more, on a file whose two
\* definitions reference each other, the first one ahead of its definition,
\* and both ended in R.
C19_Witness ==
    /\ pc = "done"
    /\ iter >= 3
    /\ Len(input) = 2
    /\ R = {"A", "B"}
    /\ \E f \in 1..Len(input[1].fields) :
          ReferencesPlainly(input[1].fields[f].ty, "B")
    /\ \E f \in 1..Len(input[2].fields) :
          ReferencesPlainly(input[2].fields[f].ty, "A")

\* C12: in every state after a line has been parsed, decoding the line
\* through the owned envelope and through the view envelope gives the same
\* result: the same variant with the same version tag and method, or a
\* failure of both.
C12_DecodingEquivalence ==
    (spc # "parse" /\ buf # <<>>) =>
        Message_deserialize(buf[1]) = zerocopy_Message_deserialize(buf[1])

\* C14 as stated: a parsed message that has the Response shape, and neither
\* the Request nor the Notification shape, is a Response, whether or not it
\* has the Error shape as well; and the owned envelope gives the variant the
\* view envelope gave.
C14_ResponseBeforeError ==
    spc = "handle" =>
        LET m == buf[1]
        IN  /\ (/\ Matches("Response", m, str_deserialize(m))
                /\ ~Matches("Request", m, str_deserialize(m))
                /\ ~Matches("Notification", m, str_deserialize(m)))
                  => msg[1].variant = "Response"
            /\ Message_deserialize(m).variant = msg[1].variant

\* C14 amended: a parsed message that has the Error shape, and neither the
\* Request nor the Notification shape, is an Error, whether or not it has
\* the Response shape as well; and the owned envelope gives the variant the
\* view envelope gave.
C14_ErrorBeforeResponse ==
    spc = "handle" =>
        LET m == buf[1]
        IN  /\ (/\ Matches("Error", m, str_deserialize(m))
                /\ ~Matches("Request", m, str_deserialize(m))
                /\ ~Matches("Notification", m, str_deserialize(m)))
                  => msg[1].variant = "Error"
            /\ Message_deserialize(m).variant = msg[1].variant

\* A line with a result member and the members of an error has been parsed
\* as an Error.
C14_Witness ==
    /\ spc = "handle"
    /\ buf[1].id # "absent" /\ buf[1].result /\ buf[1].error
    /\ buf[1].method = "absent"
    /\ msg[1].variant = "Error"

\* C15: a message whose version tag is not "2.0" is never dispatched, and no
\* response sent carries another version tag.
C15_VersionRejection ==
    /\ spc \in {"handle", "send"} => validate_jsonrpc_version(msg[1].jsonrpc)
    /\ \A i \in 1..Len(sent) : validate_jsonrpc_version(sent[i].jsonrpc)

\* A wrapper transform_field looks into: a path that is neither text itself
\* nor headed by the free-form JSON Map.
IsWrapper(ty) == ty.k = "path" /\ ~is_string_type(ty) /\ ~IsJsonMap(ty)

\* ty holds text two wrapper levels deep.
HasDeepText(ty) ==
    /\ ty.k = "path"
    /\ \E i \in 1..Len(ty.args) :
          /\ ty.args[i].k = "path"
          /\ \E j \in 1..Len(ty.args[i].args) : is_string_type(ty.args[i].args[j])

\* C21: once phase 1 has visited the file, in an eligible definition every
\* text value that is a direct argument of a field's wrapper is a view and
\* the definition is in R; text two levels deep is still owned, and a
\* definition whose fields hold text only that deep, and name no
\* definition, is not in R.
C21_OneLevelSubstitution ==
    pc \in {"check", "done", "written"} =>
        \A t \in EligibleDefs :
            /\ \A f \in 1..Len(input[t].fields) :
                  LET ty == input[t].fields[f].ty
                      now == ast[t].fields[f].ty
                  IN  IsWrapper(ty) =>
                        /\ \A i \in 1..Len(ty.args) :
                              /\ is_string_type(ty.args[i]) =>
                                    /\ now.args[i] = StrRef
                                    /\ input[t].name \in R
                              /\ (ty.args[i].k = "path" /\ ~is_string_type(ty.args[i])) =>
                                    \A j \in 1..Len(ty.args[i].args) :
                                        is_string_type(ty.args[i].args[j]) =>
                                            now.args[i].args[j] = String
            /\ (\A f \in 1..Len(input[t].fields) :
                    /\ ~HasTextLeaf(input[t].fields[f].ty)
                    /\ NamesIn(input[t].fields[f].ty) \cap Defined(input) = {})
                  => input[t].name \notin R

\* At the fixpoint: a definition whose field had text in both arguments of a
\* two-argument wrapper, beside a definition whose only text is two levels
\* deep and that stayed out of R.
C21_Witness ==
    /\ AtFixpoint
    /\ \E t, u \in EligibleDefs :
          /\ input[t].fields[1].ty = HashMap(String)
          /\ ast[t].fields[1].ty = Path("HashMap", <<StrRef, StrRef>>)
          /\ input[t].name \in R
          /\ Len(input[u].fields) = 1
          /\ HasDeepText(input[u].fields[1].ty)
          /\ ast[u].fields[1].ty = input[u].fields[1].ty
          /\ input[u].name \notin R

\* C22: at the fixpoint a field whose type is the free-form JSON Map is the
\* field of the input, type, arguments and attributes, and a definition all
\* of whose fields are such maps is not in R.
C22_JsonMapUntouched ==
    AtFixpoint =>
        \A t \in TypeDefs(input) :
            /\ \A f \in 1..Len(input[t].fields) :
                  IsJsonMap(input[t].fields[f].ty) =>
                      ast[t].fields[f] = input[t].fields[f]
            /\ (\A f \in 1..Len(input[t].fields) : IsJsonMap(input[t].fields[f].ty))
                  => input[t].name \notin R

\* C23: when phase 1 has visited the whole file, every eligible definition
\* that has a field whose type is a view is in the changed set of that pass.
C23_ViewFieldCounts ==
    (pc = "phase1" /\ idx > Len(ast)) =>
        \A t \in TypeDefs(ast) :
            (/\ Eligible(ast[t])
             /\ \E f \in 1..Len(ast[t].fields) : is_reference_type(ast[t].fields[f].ty))
                => ast[t].name \in changed_types

\* C24: in every state each field carries at most one attribute that names
\* borrow, and a field whose type is a view carries none it did not have in
\* the input; at the fixpoint every field of an eligible definition that is
\* not a view and whose type contains the lifetime carries exactly one.
C24_NoAttributeDuplication ==
    \A t \in TypeDefs(ast) :
        \A f \in 1..Len(ast[t].fields) :
            LET field == ast[t].fields[f]
            IN  /\ field.borrow <= 1
                /\ is_reference_type(field.ty) =>
                      field.borrow = input[t].fields[f].borrow
                /\ (/\ AtFixpoint
                     /\ Eligible(ast[t])
                     /\ ~is_reference_type(field.ty)
                     /\ type_contains_lifetime(field.ty))
                        => field.borrow = 1

\* C25: in every state each definition and each impl block has at most one
\* lifetime parameter, and every definition phase 1 has put in its changed
\* set has the parameter.
C25_SingleParameter ==
    /\ \A i \in 1..Len(ast) : ast[i].lt <= 1
    /\ \A t \in TypeDefs(ast) : ast[t].name \in changed_types => ast[t].lt = 1

\* Phase 1 of a later iteration has put in its changed set a definition
\* that had the parameter when the iteration began.
C25_Witness ==
    /\ pc = "check"
    /\ iter >= 2
    /\ \E t \in TypeDefs(ast) :
          /\ ast[t].name \in changed_types
          /\ before[t].lt = 1
          /\ ast[t].lt = 1

\* C26: in every state a definition that does not derive Deserialize has no
\* lifetime parameter, is in neither R nor the changed set of the pass, and
\* its text, bare or as an argument of a wrapper, is as in the input.
C26_Eligibility ==
    \A t \in TypeDefs(ast) :
        ~ast[t].derives =>
            /\ ast[t].lt = 0
            /\ ast[t].name \notin R
            /\ ast[t].name \notin changed_types
            /\ \A f \in 1..Len(ast[t].fields) :
                  LET ty == input[t].fields[f].ty
                      now == ast[t].fields[f].ty
                  IN  /\ is_string_type(ty) => now = ty
                      /\ \A i \in 1..Len(ty.args) :
                            is_string_type(ty.args[i]) => now.args[i] = ty.args[i]
                      /\ ast[t].fields[f].borrow = input[t].fields[f].borrow

\* At the fixpoint: a definition that does not derive Deserialize, has a
\* text field and a field referencing a member of R, and is not in R.
C26_Witness ==
    /\ AtFixpoint
    /\ \E t \in TypeDefs(ast) :
          /\ ~ast[t].derives
          /\ ast[t].name \notin ignored_types
          /\ Len(ast[t].fields) = 2
          /\ ast[t].fields[1].ty = String
          /\ \E n \in R : References(ast[t].fields[2].ty, n)
          /\ ast[t].name \notin R

\* C27: in the state phase 2 leaves, a second phase-2 pass changes nothing:
\* no reference receives the parameter again, and the pass would report no
\* modification.
C27_UsagePassIdempotent ==
    pc = "check" => UsagePass(ast) = ast

\* Phase 2 of the first iteration has completed a forward reference: A's
\* field named B, defined after A, and is B<'a> now.
C27_Witness ==
    /\ pc = "check"
    /\ iter = 1
    /\ Len(input) >= 2
    /\ input[1].kind \in Kinds
    /\ input[2].name = "B"
    /\ input[1].fields[1].ty = Named("B")
    /\ ast[1].fields[1].ty = Path("B", <<LifetimeA>>)

\* C28: at the fixpoint every definition, eligible or not, one of whose
\* field types contains a lifetime (a view, or a path that supplies 'a)
\* has the lifetime parameter.
C28_WellScoped ==
    AtFixpoint =>
        \A t \in TypeDefs(ast) :
            (\E f \in 1..Len(ast[t].fields) :
                type_contains_lifetime(ast[t].fields[f].ty))
              => ast[t].lt > 0

\* C29: whenever phase 1 has visited the whole file, every name in its
\* changed set is the name of a definition that has a lifetime parameter,
\* so it is in the set phase 2 collects; and no step takes a definition out
\* of the set of those that have the parameter.
C29_RequirementSetsAgree ==
    /\ []((pc = "phase1" /\ idx > Len(ast)) =>
              changed_types \subseteq collect_lifetime_types(ast))
    /\ [][R \subseteq collect_lifetime_types(ast')]_vars

\* Phase 1 of a second iteration has ended with a changed set that is not
\* empty and is smaller than the set phase 2 will collect.
C29_Witness ==
    /\ pc = "phase1"
    /\ idx > Len(ast)
    /\ iter = 2
    /\ changed_types # {}
    /\ changed_types # collect_lifetime_types(ast)

\* The responses that answer the requests reqs, in their order: each with
\* the version tag and the id of its request.
Answers(reqs) ==
    [i \in 1..Len(reqs) |->
        [variant |-> "Response",
         jsonrpc |-> reqs[i].jsonrpc,
         id      |-> reqs[i].id,
         result  |-> ResultOf(reqs[i].method)]]

C31_BufferOutlivesViews ==
    /\ [](/\ msg # <<>> =>
               buf # <<>> /\ msg[1] = zerocopy_Message_deserialize(buf[1])
          /\ response # <<>> =>
               /\ buf # <<>> /\ msg # <<>>
               /\ response[1].jsonrpc = buf[1].jsonrpc
               /\ response[1].id = buf[1].id)
    /\ [][/\ (buf # <<>> /\ buf' # buf) =>
               buf' = <<>> /\ msg' = <<>> /\ response' = <<>>
          /\ sent' # sent =>
               /\ buf # <<>> /\ response # <<>>
               /\ sent' = Append(sent, response[1])
               /\ response[1].jsonrpc = buf[1].jsonrpc
          /\ received' # received =>
               buf = <<>> /\ buf' # <<>> /\ msg' = <<>> /\ response' = <<>>]_vars

\* The response to a second message is about to be sent: it borrows from the
\* second buffer, whose version text differs from the first one's.
C31_Witness ==
    /\ spc = "send"
    /\ received = 2
    /\ Len(sent) = 1
    /\ response[1].jsonrpc = buf[1].jsonrpc
    /\ sent[1].jsonrpc # buf[1].jsonrpc
    /\ msg[1] = zerocopy_Message_deserialize(buf[1])

UnimplementedMethods ==
    {"resources/templates/list", "resources/read", "resources/subscribe",
     "resources/unsubscribe", "prompts/get", "tools/call", "logging/setlevel",
     "completion/complete"}

====
